---- MODULE Spec2Model ----
(***************************************************************************)
(* A model of src/src/paretoChart.ts: the Pareto chart visual.             *)
(*                                                                         *)
(* The model covers createSelectorDataPoints, ParetoChart.update (data     *)
(* points, total, cumulative percent, markers, the d3 data join of the     *)
(* bars, the selection highlight, the event handlers), the click handlers  *)
(* with their asynchronous confirmations, the selection manager's          *)
(* on-select callback and syncSelectionState.                              *)
(*                                                                         *)
(* JavaScript numbers are IEEE-754 doubles.  The arithmetic of update      *)
(* (total += value, value / total * 100, cumulative + ...) is modelled     *)
(* bit for bit: a finite non-negative double is a mantissa (a sequence of  *)
(* 14-bit limbs, least significant first) and a binary exponent, and every *)
(* operation rounds to 53 bits, ties to even, as the hardware does.        *)
(***************************************************************************)
EXTENDS Integers, Sequences, FiniteSets, TLC

(***************************************************************************)
(* Natural numbers of any size: sequences of limbs, least significant      *)
(* first, each limb a number below 2^LimbBits, the last one not zero.      *)
(* TLC's integers have 32 bits; a double's mantissa has 53.                *)
(***************************************************************************)
Min(a, b) == IF a <= b THEN a ELSE b

Max(a, b) == IF a >= b THEN a ELSE b

\* The bits of a limb: the product of two limbs fits a machine integer.
LimbBits == 14

Base == 2^LimbBits

\* The number of bits of n (n < 2^30).
BitLen(n) == CHOOSE k \in 0..30 : 2^k > n /\ (k = 0 \/ 2^(k - 1) <= n)

Limb(a, i) == IF 1 <= i /\ i <= Len(a) THEN a[i] ELSE 0

\* Drop the zero limbs at the most significant end.
LTrim(a) ==
  IF \A i \in 1..Len(a) : a[i] = 0 THEN << >>
  ELSE SubSeq(a, 1, CHOOSE i \in 1..Len(a) :
                      a[i] # 0 /\ \A j \in (i + 1)..Len(a) : a[j] = 0)

\* The limbs of n (n < 2^28).
NatToLimbs(n) == LTrim(<<n % Base, n \div Base>>)

\* The number a stands for, when it fits a machine integer.
LimbsToNat(a) == Limb(a, 1) + Base * Limb(a, 2)

\* a + b + carry, from limb i on.
RECURSIVE LAddFrom(_, _, _, _)
LAddFrom(a, b, i, carry) ==
  IF i > Len(a) /\ i > Len(b) THEN <<carry>>
  ELSE <<(Limb(a, i) + Limb(b, i) + carry) % Base>>
         \o LAddFrom(a, b, i + 1, (Limb(a, i) + Limb(b, i) + carry) \div Base)

LAdd(a, b) == LTrim(LAddFrom(a, b, 1, 0))

\* a * k + carry for a number k below 2^16, from limb i on.
RECURSIVE LMulSmallFrom(_, _, _, _)
LMulSmallFrom(a, k, i, carry) ==
  IF i > Len(a) THEN <<carry % Base, carry \div Base>>
  ELSE <<(a[i] * k + carry) % Base>>
         \o LMulSmallFrom(a, k, i + 1, (a[i] * k + carry) \div Base)

LMulSmall(a, k) == LTrim(LMulSmallFrom(a, k, 1, 0))

\* a * 2^k.
LShiftL(a, k) ==
  IF a = << >> THEN << >>
  ELSE [i \in 1..(k \div LimbBits) |-> 0] \o LMulSmall(a, 2^(k % LimbBits))

\* a \div 2^k.
LShiftR(a, k) ==
  LET q == k \div LimbBits
      r == k % LimbBits
      n == Max(Len(a) - q, 0)
  IN  LTrim(SubSeq([i \in 1..n |->
                      (a[i + q] \div 2^r)
                        + (Limb(a, i + q + 1) % 2^r) * 2^(LimbBits - r)],
                   1, n))

\* a * b, limb by limb of b from limb i on.
RECURSIVE LMulFrom(_, _, _)
LMulFrom(a, b, i) ==
  IF i > Len(b) THEN << >>
  ELSE LAdd(LShiftL(LMulSmall(a, b[i]), LimbBits * (i - 1)),
            LMulFrom(a, b, i + 1))

LMul(a, b) == LMulFrom(a, b, 1)

\* The number of bits of a.
LBitLen(a) ==
  IF a = << >> THEN 0 ELSE LimbBits * (Len(a) - 1) + BitLen(a[Len(a)])

\* Bit p of a, the least significant being bit 1.
LBit(a, p) ==
  (Limb(a, ((p - 1) \div LimbBits) + 1) \div 2^((p - 1) % LimbBits)) % 2

\* Whether the k low bits of a are all zero.
LowZero(a, k) ==
  /\ \A i \in 1..(k \div LimbBits) : Limb(a, i) = 0
  /\ Limb(a, (k \div LimbBits) + 1) % 2^(k % LimbBits) = 0

\* The number of zero bits at the least significant end of a (a not zero).
TrailingZeros(a) == CHOOSE k \in 0..LBitLen(a) : LowZero(a, k) /\ LBit(a, k + 1) = 1

\* -1, 0 or 1 as a < b, a = b, a > b.
LCmp(a, b) ==
  IF Len(a) < Len(b) THEN -1
  ELSE IF Len(a) > Len(b) THEN 1
  ELSE IF a = b THEN 0
  ELSE LET top == CHOOSE i \in 1..Len(a) :
                    a[i] # b[i] /\ \A j \in (i + 1)..Len(a) : a[j] = b[j]
       IN  IF a[top] < b[top] THEN -1 ELSE 1

(***************************************************************************)
(* IEEE-754 doubles: NaN, or the finite non-negative value m * 2^e with m  *)
(* odd (or zero).  The inputs of the model are small non-negative          *)
(* integers, so no infinity, negative number or subnormal arises.          *)
(***************************************************************************)
\* The precision of a double: 53 significant bits.
Precision == 53

NaN == [nan |-> TRUE, m |-> << >>, e |-> 0]

\* The canonical form of m * 2^e: m odd, or zero.
Exact(m, e) ==
  IF m = << >> THEN [nan |-> FALSE, m |-> << >>, e |-> 0]
  ELSE [nan |-> FALSE, m |-> LShiftR(m, TrailingZeros(m)),
        e |-> e + TrailingZeros(m)]

Num(n) == Exact(NatToLimbs(n), 0)

\* The exact value m * 2^e (+ a non-zero remainder below the last bit when
\* sticky) rounded to the nearest double, ties to even.
Round(m, e, sticky) ==
  IF LBitLen(m) <= Precision THEN Exact(m, e)
  ELSE LET s     == LBitLen(m) - Precision
           kept  == LShiftR(m, s)
           guard == LBit(m, s)
           rest  == sticky \/ ~LowZero(m, s - 1)
           up    == guard = 1 /\ (rest \/ LBit(kept, 1) = 1)
       IN  Exact(IF up THEN LAdd(kept, <<1>>) ELSE kept, e + s)

\* x + y.
DAdd(x, y) ==
  IF x.nan \/ y.nan THEN NaN
  ELSE LET lo == Min(x.e, y.e)
       IN  Round(LAdd(LShiftL(x.m, x.e - lo), LShiftL(y.m, y.e - lo)), lo, FALSE)

\* x * y.
DMul(x, y) ==
  IF x.nan \/ y.nan THEN NaN
  ELSE Round(LMul(x.m, y.m), x.e + y.e, FALSE)

\* The first c limbs of the fraction r / d (r < d < 2^16), least significant
\* first, and the remainder left.
RECURSIVE FracLimbs(_, _, _)
FracLimbs(r, d, c) ==
  IF c = 0 THEN [limbs |-> << >>, rem |-> r]
  ELSE LET rest == FracLimbs((r * Base) % d, d, c - 1)
       IN  [limbs |-> rest.limbs \o <<(r * Base) \div d>>, rem |-> rest.rem]

\* x / y, for mantissas that fit a machine integer (the values and the total
\* of the model do).  0 / 0 is NaN; x / 0 for x > 0 does not arise.
DDiv(x, y) ==
  IF x.nan \/ y.nan \/ y.m = << >> THEN NaN
  ELSE LET n == LimbsToNat(x.m)
           d == LimbsToNat(y.m)
           c == ((Precision + 2 + LBitLen(y.m)) \div LimbBits) + 1
           f == FracLimbs(n % d, d, c)
       IN  Round(LTrim(f.limbs \o NatToLimbs(n \div d)),
                 x.e - y.e - c * LimbBits, f.rem # 0)

\* a - b - borrow for a >= b, from limb i on.
RECURSIVE LSubFrom(_, _, _, _)
LSubFrom(a, b, i, borrow) ==
  IF i > Len(a) THEN << >>
  ELSE LET d == Limb(a, i) - Limb(b, i) - borrow
       IN  <<(d + Base) % Base>>
             \o LSubFrom(a, b, i + 1, IF d < 0 THEN 1 ELSE 0)

LSub(a, b) == LTrim(LSubFrom(a, b, 1, 0))

\* The quotient limb of r by d, for r < d * Base and the top limb of d at
\* least Base / 2: the estimate from the top limbs is at most 2 too large.
QuotientLimb(r, d) ==
  LET n   == Len(d)
      est == Min(Base - 1, (Limb(r, n + 1) * Base + Limb(r, n)) \div d[n])
  IN  IF LCmp(LMulSmall(d, est), r) <= 0 THEN est
      ELSE IF LCmp(LMulSmall(d, est - 1), r) <= 0 THEN est - 1
      ELSE est - 2

\* Long division of the limbs a[1..i] after the remainder r of the limbs
\* above them, by d: the quotient limbs of a[1..i] and the last remainder.
RECURSIVE LDivFrom(_, _, _, _)
LDivFrom(a, d, i, r) ==
  IF i = 0 THEN [q |-> << >>, r |-> r]
  ELSE LET cur  == LTrim(<<a[i]>> \o r)
           ql   == QuotientLimb(cur, d)
           rest == LDivFrom(a, d, i - 1, LSub(cur, LMulSmall(d, ql)))
       IN  [q |-> rest.q \o <<ql>>, r |-> rest.r]

\* a \div d and a % d for d not zero: both are scaled so that the top limb
\* of d is at least Base / 2.
LDivMod(a, d) ==
  LET s   == LimbBits - BitLen(d[Len(d)])
      res == LDivFrom(LShiftL(a, s), LShiftL(d, s), Len(LShiftL(a, s)), << >>)
  IN  [q |-> LTrim(res.q), r |-> LShiftR(res.r, s)]

\* x - y for x >= y.
DSub(x, y) ==
  IF x.nan \/ y.nan THEN NaN
  ELSE LET lo == Min(x.e, y.e)
       IN  Round(LSub(LShiftL(x.m, x.e - lo), LShiftL(y.m, y.e - lo)), lo, FALSE)

\* x / y for any mantissas: the quotient of the mantissas with at least
\* Precision + 2 bits, and whether a remainder is left.
DDivLong(x, y) ==
  IF x.nan \/ y.nan \/ y.m = << >> THEN NaN
  ELSE IF x.m = << >> THEN x
  ELSE LET k  == Max(0, Precision + 3 + LBitLen(y.m) - LBitLen(x.m))
           qr == LDivMod(LShiftL(x.m, k), y.m)
       IN  Round(qr.q, x.e - y.e - k, qr.r # << >>)

\* Math.floor(x) as an integer (below 2^28).
MathFloor(x) ==
  IF x.e >= 0 THEN LimbsToNat(LShiftL(x.m, x.e))
  ELSE LimbsToNat(LShiftR(x.m, 0 - x.e))

\* Math.round(x) as an integer: the floor of x + 1/2, computed exactly.
MathRound(x) ==
  IF x.e >= 0 THEN MathFloor(x)
  ELSE LimbsToNat(LShiftR(LAdd(x.m, LShiftL(<<1>>, (0 - x.e) - 1)), 0 - x.e))

\* -1, 0, 1 as x < y, x = y, x > y (neither NaN).
DCmp(x, y) ==
  LET lo == Min(x.e, y.e)
  IN  LCmp(LShiftL(x.m, x.e - lo), LShiftL(y.m, y.e - lo))

DLeq(x, y) == ~x.nan /\ ~y.nan /\ DCmp(x, y) <= 0

(***************************************************************************)
(* JavaScript values of a value cell: a number, null or undefined.         *)
(***************************************************************************)
JNum(n) == [t |-> "number", v |-> n]

Null == [t |-> "null", v |-> 0]

Undefined == [t |-> "undefined", v |-> 0]

\* <number>value as an operand of + and /: null is 0, undefined is NaN.
ToNumber(jv) ==
  IF jv.t = "number" THEN Num(jv.v)
  ELSE IF jv.t = "null" THEN Num(0)
  ELSE NaN

(***************************************************************************)
(* Bounds of the model.                                                    *)
(***************************************************************************)
\* The longest category or value column of the data specification.
MaxLen == 3

\* The largest value of a cell.
MaxVal == 2

\* The most bars an update of the interaction specification renders.
MaxBars == 3

\* The updates of one behaviour of the interaction specification.
MaxUpdates == 2

\* The click confirmations that may be pending at once.
MaxPending == 2

(***************************************************************************)
(* Program constants (ParetoChart.Config).  Opacities are in hundredths:   *)
(* solidOpacity 1 is 100, transparentOpacity 0.4 is 40, and the general    *)
(* view's opacity setting g gives g / 100, that is g hundredths.           *)
(***************************************************************************)
solidOpacity == 100

transparentOpacity == 40

\* Config.margins.top and Config.margins.bottom.
marginTop == 20

marginBottom == 5

(***************************************************************************)
(* The query result handed to update (options.dataViews).                  *)
(***************************************************************************)
Labels == <<"A", "B", "C", "D", "E">>

\* A well-formed result: one category column and one value column.
\* dataValue.objects, the per-row metadata of the value column: absent, or
\* an array with a cell for each row it covers; a cell is a hole (undefined)
\* or an object with general.formatString.
NoObjects == [present |-> FALSE, cells |-> << >>]

Hole == [hole |-> TRUE, formatString |-> ""]

Format(f) == [hole |-> FALSE, formatString |-> f]

DataView(cats, vals) ==
  [hasDataViews |-> TRUE, hasView |-> TRUE, hasCategorical |-> TRUE,
   categories |-> "present", hasSource |-> TRUE, values |-> "present",
   cats |-> cats, vals |-> vals, objects |-> NoObjects]

\* A query result whose value column has the metadata cells.
Formatted(dv, cells) ==
  [dv EXCEPT !.objects = [present |-> TRUE, cells |-> cells]]

Empty == DataView(<< >>, << >>)

\* Query results in which a part is absent or a column list is empty.
Malformed ==
  { [Empty EXCEPT !.hasDataViews = FALSE, !.hasView = FALSE,
                  !.hasCategorical = FALSE, !.categories = "absent",
                  !.hasSource = FALSE, !.values = "absent"],
    [Empty EXCEPT !.hasView = FALSE, !.hasCategorical = FALSE,
                  !.categories = "absent", !.hasSource = FALSE,
                  !.values = "absent"],
    [Empty EXCEPT !.hasCategorical = FALSE, !.categories = "absent",
                  !.hasSource = FALSE, !.values = "absent"],
    [Empty EXCEPT !.categories = "absent", !.hasSource = FALSE],
    [Empty EXCEPT !.categories = "empty", !.hasSource = FALSE],
    [Empty EXCEPT !.hasSource = FALSE],
    [Empty EXCEPT !.values = "absent"],
    [Empty EXCEPT !.values = "empty"] }

(***************************************************************************)
(* createSelectorDataPoints.                                               *)
(***************************************************************************)
\* host.createSelectionIdBuilder().withCategory(category, i).createSelectionId():
\* the identity of row i.  An identity is the set of rows it stands for.
CreateSelectionId(i) == {i}

\* `${category.values[i]}`: the label, or the text of undefined.
CategoryText(dv, i) ==
  IF i < Len(dv.cats) THEN dv.cats[i + 1] ELSE "undefined"

\* colorPalette.getColor(name).value, the host's colour for a name (no high
\* contrast, no colour set in the format pane).
GetColor(name) == [paletteColorOf |-> name]

\* dataValue.objects ? dataValue.objects[i].general.formatString : null
\* throws a TypeError when objects is there and objects[i] is undefined.
FormatThrows(dv, i) ==
  /\ dv.objects.present
  /\ \/ i >= Len(dv.objects.cells)
     \/ dv.objects.cells[i + 1].hole

FormatString(dv, i) ==
  IF dv.objects.present THEN dv.objects.cells[i + 1].formatString ELSE "null"

\* The data point of row i (0-based) pushed by the loop.
DataPoint(dv, i) ==
  [category    |-> CategoryText(dv, i),
   value       |-> IF i < Len(dv.vals) THEN dv.vals[i + 1] ELSE Undefined,
   index       |-> i,
   color       |-> GetColor(CategoryText(dv, i)),
   selectionId |-> CreateSelectionId(i),
   format      |-> FormatString(dv, i)]

\* The number of iterations of the loop.
LoopLen(dv) == Max(Len(dv.cats), Len(dv.vals))

\* The guard of lines 190-198, its operands read from left to right:
\* "true" (the function returns []), "false" (it goes on), or "threw":
\* categories[0].source is read of an empty categories list, whose first
\* element is undefined.  An empty list is truthy, so an empty values list
\* leaves the guard false.
Guard(dv) ==
  IF \/ ~dv.hasDataViews \/ ~dv.hasView \/ ~dv.hasCategorical
     \/ dv.categories = "absent"
  THEN "true"
  ELSE IF dv.categories = "empty" THEN "threw"
  ELSE IF ~dv.hasSource \/ dv.values = "absent" THEN "true"
  ELSE "false"

\* The result: the data points, or a TypeError thrown.
createSelectorDataPoints(dv) ==
  IF Guard(dv) = "true"
  THEN [threw |-> FALSE, points |-> << >>]
  ELSE IF Guard(dv) = "threw"
  THEN [threw |-> TRUE, points |-> << >>]
  ELSE IF dv.values = "empty"            \* dataValue is undefined (213)
  THEN [threw |-> TRUE, points |-> << >>]
  ELSE IF \E i \in 0..(LoopLen(dv) - 1) : FormatThrows(dv, i)
  THEN [threw |-> TRUE, points |-> << >>]  \* objects[i] is undefined
  ELSE [threw |-> FALSE,
        points |-> [k \in 1..LoopLen(dv) |-> DataPoint(dv, k - 1)]]

(***************************************************************************)
(* The series of update: the total and the cumulative percentages.         *)
(***************************************************************************)
\* A total that leaves out the last data point.
RECURSIVE TotalOfAllButLast(_, _)
TotalOfAllButLast(points, k) ==
  IF k <= 1 THEN Num(0)
  ELSE DAdd(TotalOfAllButLast(points, k - 1), ToNumber(points[k - 1].value))

\* total after the forEach over the first k data points.
RECURSIVE TotalOf(_, _)
TotalOf(points, k) ==
  IF k = 0 THEN Num(0)
  ELSE DAdd(TotalOf(points, k - 1), ToNumber(points[k].value))

\* A step that forgets the running sum.
CumulativeStepPerPoint(cumulative, value, total) ==
  DMul(DDiv(ToNumber(value), total), Num(100))

\* One step of the map: cumulative + value / total * 100.
CumulativeStep(cumulative, value, total) ==
  DAdd(cumulative, DMul(DDiv(ToNumber(value), total), Num(100)))

\* The data points with el.cumulative set, as the map leaves them.
RECURSIVE WithCumulativeFrom(_, _, _, _)
WithCumulativeFrom(points, total, k, cumulative) ==
  IF k > Len(points) THEN << >>
  ELSE LET c == CumulativeStep(cumulative, points[k].value, total)
       IN  <<[category    |-> points[k].category,
              value       |-> points[k].value,
              index       |-> points[k].index,
              color       |-> points[k].color,
              selectionId |-> points[k].selectionId,
              format      |-> points[k].format,
              cumulative  |-> c]>>
             \o WithCumulativeFrom(points, total, k + 1, c)

WithCumulative(points, total) == WithCumulativeFrom(points, total, 1, Num(0))

(***************************************************************************)
(* The scales of update (d3-scale).                                        *)
(***************************************************************************)
\* The padding of the band scale: the number 0.2.
Padding == DDiv(Num(2), Num(10))

\* Data point i is the first one with its category: the domain of a band
\* scale holds every category once, in the order of first appearance.
IsFirst(points, i) ==
  \A j \in 1..(i - 1) : points[j].category # points[i].category

BandCount(points) == Cardinality({i \in 1..Len(points) : IsFirst(points, i)})

\* The position (from 0) of a category in the domain.
BandIndex(points, category) ==
  LET first == CHOOSE i \in 1..Len(points) :
                 points[i].category = category /\ IsFirst(points, i)
  IN  Cardinality({j \in 1..(first - 1) : IsFirst(points, j)})

\* scaleBand().domain(categories).rangeRound([0, width]).padding(0.2) for
\* n >= 1 categories: step, start and bandwidth, whole numbers of pixels.
BandScale(n, width) ==
  LET inner == DSub(Num(n), Padding)
      step  == MathFloor(DDivLong(Num(width),
                                  DAdd(inner, DMul(Padding, Num(2)))))
      start == MathRound(DMul(DSub(Num(width), DMul(Num(step), inner)),
                              Exact(<<1>>, -1)))
  IN  [step      |-> step,
       start     |-> start,
       bandwidth |-> MathRound(DMul(Num(step), DSub(Num(1), Padding)))]

\* xScale(category).
BandStart(scale, points, category) ==
  scale.start + scale.step * BandIndex(points, category)

\* scaleLinear().domain([0, top]).range([from, to]) at x, for 0 <= x and
\* to <= from: unknown (not a number here) for null, undefined and NaN; the
\* middle of the range when the domain is [0, 0]; else
\* from * (1 - t) + to * t with t = x / top.
LinearScale(top, from, to, x) ==
  IF x.nan \/ top.nan THEN NaN
  ELSE LET t == IF top = Num(0) THEN Exact(<<1>>, -1) ELSE DDivLong(x, top)
       IN  IF DLeq(t, Num(1))
           THEN DAdd(DMul(Num(from), DSub(Num(1), t)), DMul(Num(to), t))
           ELSE DSub(DMul(Num(to), t), DMul(Num(from), DSub(t, Num(1))))

\* The argument of a linear scale for a value cell: null and undefined are
\* unknown.
ScaleArgument(value) == IF value.t = "number" THEN Num(value.v) ELSE NaN

(***************************************************************************)
(* The state of the visual and of its collaborators.                       *)
(***************************************************************************)
VARIABLES
  barDataPoints,      \* this.barDataPoints
  formattingSettings, \* this.formattingSettings: the general view's opacity
  formatMode,         \* this.formatMode
  bars,               \* the .bar elements of barContainer, in document order
  line,               \* the vertices of the path of this.line (lineArray)
  circles,            \* the .myCircle elements: centre and radius of each
  barSelection,       \* this.barSelection: the update selection of the join
  svgClick,           \* the click listener of this.svg
  nextEl,             \* the number of bar elements created so far
  selectionIds,       \* the selection manager's selected identities
  pending,            \* the promises of select() and clear() not yet resolved
  allowInteractions,  \* host.hostCapabilities.allowInteractions
  lastUpdate,         \* how the last update ended: "none", "ok",
                      \* "threwInCreate" (in createSelectorDataPoints),
                      \* "threwInUpdate" (in update itself)
  lastOptions,        \* the options of the last update
  lastSync,           \* the last run of syncSelectionState: what ran it,
                      \* its selection, its identities, the settings it read
  updates,            \* the number of updates so far
  repeated,           \* whether the last update had the options of the one
                      \* before it
  svgContextMenu,     \* whether this.svg has the contextmenu listener
  axisTicks,          \* whether the axes have tick elements: each is bound
                      \* to its tick value (a label or a number)
  lastContextMenu,    \* the last call of selectionManager.showContextMenu
  lastLookup          \* the last call of getSubSelectionStyles or
                      \* getSubSelectionShortcuts: its argument and result

vars == <<barDataPoints, formattingSettings, formatMode, bars, line, circles,
          barSelection, svgClick, nextEl, selectionIds, pending,
          allowInteractions, lastUpdate, lastOptions, lastSync, updates,
          repeated, svgContextMenu, axisTicks, lastContextMenu, lastLookup>>

\* No call of showContextMenu yet.  Of a call: the identity passed, or that
\* undefined was passed for it.
NoContextMenu == [shown |-> FALSE, id |-> {}, idUndefined |-> FALSE]

\* A listener: whether one is installed, and the selection (a set of bar
\* elements) its closure captured.
NoListener == [on |-> FALSE, sel |-> {}]

\* strokeColor null and strokeWidth 0: no high contrast.
NoStroke == [color |-> "null", width |-> 0]

Listener(sel) == [on |-> TRUE, sel |-> sel]

\* The elements of a sequence of bars.
Els(bs) == {bs[i].el : i \in 1..Len(bs)}

(***************************************************************************)
(* syncSelectionState and isSelectionIdInArray.                            *)
(***************************************************************************)
\* currentSelectionId.includes(selectionId): the identity stands for every
\* row the other stands for.
Includes(currentSelectionId, selectionId) == selectionId \subseteq currentSelectionId

\* A match by equality of the identities instead of includes.
isSelectionIdEqualInArray(ids, selectionId) == selectionId \in ids

isSelectionIdInArray(ids, selectionId) ==
  \E currentSelectionId \in ids : Includes(currentSelectionId, selectionId)

\* A highlight without the case of the empty selection.
SyncOpacityWithoutEmptyCase(ids, settings, datum) ==
  IF isSelectionIdInArray(ids, datum.selectionId) THEN solidOpacity
  ELSE transparentOpacity

\* The opacity syncSelectionState gives a bar of the selection.
SyncOpacity(ids, settings, datum) ==
  IF ids = {} THEN settings.opacity
  ELSE IF isSelectionIdInArray(ids, datum.selectionId) THEN solidOpacity
  ELSE transparentOpacity

\* A highlight that also outlines the selected bars.
syncSelectionStateWithStroke(bs, sel, ids, settings) ==
  IF ~sel.defined THEN bs
  ELSE [i \in 1..Len(bs) |->
          IF bs[i].el \in sel.els
          THEN [bs[i] EXCEPT
                  !.opacity = SyncOpacity(ids, settings, bs[i].datum),
                  !.stroke = IF isSelectionIdInArray(ids, bs[i].datum.selectionId)
                             THEN [color |-> "black", width |-> 1]
                             ELSE NoStroke]
          ELSE bs[i]]

\* The bars after syncSelectionState(selection, ids): sel is the selection
\* (defined or not, and its elements), each bar is read with its datum.
syncSelectionState(bs, sel, ids, settings) ==
  IF ~sel.defined THEN bs
  ELSE [i \in 1..Len(bs) |->
          IF bs[i].el \in sel.els
          THEN [bs[i] EXCEPT !.opacity = SyncOpacity(ids, settings, bs[i].datum)]
          ELSE bs[i]]

Selection(els) == [defined |-> TRUE, els |-> els]

NoSelection == [defined |-> FALSE, els |-> {}]

\* The record of a run of syncSelectionState: what ran it, the elements of
\* its selection, its identities, the opacity setting it read, and the bar
\* elements in the bar container when it began.
SyncRun(by, sel, ids, settings, dom) ==
  [by |-> by, sel |-> sel.els, ids |-> ids, opacity |-> settings.opacity,
   dom |-> dom]

(***************************************************************************)
(* On-object formatting: getSubSelectionStyles, getSubSelectionShortcuts.  *)
(***************************************************************************)
\* A formatting reference: a property of an object of the visual.
Reference(objectName, propertyName) ==
  [objectName |-> objectName, propertyName |-> propertyName]

\* colorSelectorReferences, enableAxisReferences, directEditReferences.
CardUid(objectName) == [cardOf |-> objectName]

\* A visual object of a sub-selection: its objectName and the selector of
\* its selectionId, "undefined" when it has no selectionId.
VisualObject(objectName, selector) ==
  [objectName |-> objectName, selector |-> selector]

\* A sub-selection with its customVisualObjects.
SubSelection(objects) == [customVisualObjects |-> objects]

\* subSelections[0]?.customVisualObjects[0]
HasVisualObject(subSelections) ==
  /\ Len(subSelections) >= 1
  /\ Len(subSelections[1].customVisualObjects) >= 1

FirstVisualObject(subSelections) == subSelections[1].customVisualObjects[1]

\* The result undefined, and a SubSelectionStyles object: its type, the
\* references of its entries and the selector of the fill.
NoStyles ==
  [defined |-> FALSE, type |-> "", references |-> {}, selector |-> "undefined"]

Styles(type, references, selector) ==
  [defined |-> TRUE, type |-> type, references |-> references,
   selector |-> selector]

getColorSelectorStyles(subSelections) ==
  Styles("Shape", {Reference("colorSelector", "fill")},
         FirstVisualObject(subSelections).selector)

getEnableAxisStyles ==
  Styles("Shape", {Reference("enableAxis", "fill")}, "undefined")

getDirectEditStyles ==
  Styles("Text",
         {Reference("directEdit", name) :
            name \in {"fontFamily", "bold", "italic", "underline", "fontSize",
                      "fontColor", "background"}},
         "undefined")

\* A lookup that gives the styles of the axis for every other object name.
getSubSelectionStylesWithDefault(subSelections) ==
  IF ~HasVisualObject(subSelections) THEN NoStyles
  ELSE LET objectName == FirstVisualObject(subSelections).objectName
       IN  IF objectName = "colorSelector"
           THEN getColorSelectorStyles(subSelections)
           ELSE IF objectName = "directEdit" THEN getDirectEditStyles
           ELSE getEnableAxisStyles

getSubSelectionStyles(subSelections) ==
  IF ~HasVisualObject(subSelections) THEN NoStyles
  ELSE LET objectName == FirstVisualObject(subSelections).objectName
       IN  IF objectName = "colorSelector"
           THEN getColorSelectorStyles(subSelections)
           ELSE IF objectName = "enableAxis" THEN getEnableAxisStyles
           ELSE IF objectName = "directEdit" THEN getDirectEditStyles
           ELSE NoStyles

\* A shortcut: its type, the references it resets, toggles or picks, the
\* references it excludes, the selector, the card it navigates to, its label.
Shortcut(type, related, excluded, selector, card, label) ==
  [type |-> type, related |-> related, excluded |-> excluded,
   selector |-> selector, card |-> card, label |-> label]

NoCard == [cardOf |-> ""]

\* The result undefined, and a list of shortcuts.
NoShortcuts == [defined |-> FALSE, shortcuts |-> << >>]

Shortcuts(list) == [defined |-> TRUE, shortcuts |-> list]

getColorSelectorShortcuts(subSelections) ==
  Shortcuts(
    <<Shortcut("Reset", {Reference("colorSelector", "fill")}, {},
               FirstVisualObject(subSelections).selector, NoCard, ""),
      Shortcut("Navigate", {}, {}, "undefined", CardUid("colorSelector"),
               "Color")>>)

getEnableAxisShortcuts ==
  Shortcuts(
    <<Shortcut("Reset", {Reference("enableAxis", "fill")},
               {Reference("enableAxis", "show")}, "undefined", NoCard, ""),
      Shortcut("Toggle", {Reference("enableAxis", "show")}, {}, "undefined",
               NoCard, "Delete"),
      Shortcut("Navigate", {}, {}, "undefined", CardUid("enableAxis"),
               "EnableAxis")>>)

getDirectEditShortcuts ==
  Shortcuts(
    <<Shortcut("Reset",
               {Reference("directEdit", name) :
                  name \in {"bold", "fontFamily", "fontSize", "italic",
                            "underline", "fontColor", "textProperty"}},
               {}, "undefined", NoCard, ""),
      Shortcut("Toggle", {Reference("directEdit", "show")}, {}, "undefined",
               NoCard, "Delete"),
      Shortcut("Picker", {Reference("directEdit", "position")}, {},
               "undefined", NoCard, "Position"),
      Shortcut("Navigate", {}, {}, "undefined", CardUid("directEdit"),
               "Direct edit")>>)

getSubSelectionShortcuts(subSelections) ==
  IF ~HasVisualObject(subSelections) THEN NoShortcuts
  ELSE LET objectName == FirstVisualObject(subSelections).objectName
       IN  IF objectName = "colorSelector"
           THEN getColorSelectorShortcuts(subSelections)
           ELSE IF objectName = "enableAxis" THEN getEnableAxisShortcuts
           ELSE IF objectName = "directEdit" THEN getDirectEditShortcuts
           ELSE NoShortcuts

\* The record of a lookup: which one, its argument and its result.
Lookup(kind, subSelections, styles, shortcuts) ==
  [kind |-> kind, subSelections |-> subSelections, styles |-> styles,
   shortcuts |-> shortcuts]

NoLookup == Lookup("none", << >>, NoStyles, NoShortcuts)

(***************************************************************************)
(* The state after construction.                                           *)
(***************************************************************************)
Init ==
  /\ barDataPoints = << >>
  /\ formattingSettings = [opacity |-> 0]
  /\ formatMode = FALSE
  /\ bars = << >>
  /\ line = << >>
  /\ circles = << >>
  /\ barSelection = NoSelection
  /\ svgClick = NoListener
  /\ nextEl = 0
  /\ selectionIds = {}
  /\ pending = << >>
  /\ allowInteractions \in BOOLEAN
  /\ lastUpdate = "none"
  /\ lastOptions = [dv |-> Empty, formatMode |-> FALSE, opacity |-> 0,
                    viewport |-> [width |-> 0, height |-> 0]]
  /\ lastSync = SyncRun("none", NoSelection, {}, [opacity |-> 0], {})
  /\ updates = 0
  /\ repeated = FALSE
  /\ svgContextMenu = TRUE
  /\ axisTicks = FALSE
  /\ lastContextMenu = NoContextMenu
  /\ lastLookup = NoLookup

(***************************************************************************)
(* update.                                                                 *)
(***************************************************************************)
\* The bars after the join of update: element i keeps its place and is bound
\* to data point i, elements are appended for the data points beyond the old
\* bars (enter) and the elements beyond the data points are removed (exit).
\* Every bar gets the general opacity, then syncSelectionState runs on the
\* merged selection, then the listeners are set.
JoinedBars(old, points, first) ==
  [i \in 1..Len(points) |->
     IF i <= Len(old) THEN [old[i] EXCEPT !.datum = points[i]]
     ELSE [el      |-> first + (i - Len(old)) - 1,
           datum   |-> points[i],
           x       |-> 0,
           y       |-> NaN,
           width   |-> 0,
           height  |-> NaN,
           fill    |-> GetColor(""),
           stroke  |-> NoStroke,
           opacity |-> 0,
           click   |-> NoListener]]

\* The width, height, y and x update computes for the bar of data point i:
\* xScale is the band scale, height the viewport's height less the bottom
\* margin.
BarBox(points, i, xScale, height, total) ==
  LET y == LinearScale(total, height, marginTop, ScaleArgument(points[i].value))
  IN  [width  |-> xScale.bandwidth,
       height |-> IF y.nan THEN NaN ELSE DSub(Num(height), y),
       y      |-> y,
       x      |-> BandStart(xScale, points, points[i].category)]

\* The attributes update sets on every bar of the merged selection: width,
\* height, y and x from the scales, fill and stroke from the data point.
WithAttributes(bs, boxes) ==
  [i \in 1..Len(bs) |->
     [bs[i] EXCEPT
        !.width  = boxes[i].width,
        !.height = boxes[i].height,
        !.y      = boxes[i].y,
        !.x      = boxes[i].x,
        !.fill   = bs[i].datum.color,
        !.stroke = NoStroke]]

\* lineDataPoints: the vertex of each data point, at the right edge of its
\* category's band and at the height of its cumulative percentage.
LineDataPoints(points, xScale, height) ==
  SubSeq([i \in 1..Len(points) |->
            [x |-> BandStart(xScale, points, points[i].category)
                     + xScale.bandwidth,
             y |-> LinearScale(Num(100), height, marginTop,
                               points[i].cumulative)]],
         1, Len(points))

\* startPoint: the left edge of the first data point's band, at 0 %.
StartPoint(points, xScale, height) ==
  [x |-> BandStart(xScale, points, points[1].category),
   y |-> LinearScale(Num(100), height, marginTop, Num(0))]

\* A path without the start vertex.
LineArrayWithoutStart(startPoint, lineDataPoints) == lineDataPoints

\* lineArray, the vertices of the path.
LineArray(startPoint, lineDataPoints) == <<startPoint>> \o lineDataPoints

\* The circles appended, one for each element of lineDataPoints, with the
\* radius Math.min(height, width) / 50.
Circles(lineDataPoints, height, width) ==
  [i \in 1..Len(lineDataPoints) |->
     [cx |-> lineDataPoints[i].x,
      cy |-> lineDataPoints[i].y,
      r  |-> DDivLong(Num(Min(height, width)), Num(50))]]

\* A removal that matches no circle.
KeptCircles(old) == old

\* The circles left by selectAll('.myCircle').remove(): none.
RemovedCircles(old) == << >>

WithOpacity(bs, opacity) ==
  [i \in 1..Len(bs) |-> [bs[i] EXCEPT !.opacity = opacity]]

\* removeEventHandlers / handleBarClick on the merged selection.
WithBarListeners(bs, listener) ==
  [i \in 1..Len(bs) |-> [bs[i] EXCEPT !.click = listener]]

\* The update selection of the join: the elements that were already there.
UpdateSelection(old, points) ==
  Selection({old[i].el : i \in 1..Min(Len(old), Len(points))})

\* A merged selection without the enter selection.
MergedWithoutEnter(old, points, first) == UpdateSelection(old, points)

\* barSelectionMerged: the enter selection merged with the update selection.
Merged(old, points, first) == Selection(Els(JoinedBars(old, points, first)))

RenderedBars(old, points, first, settings, ids, fmt, boxes) ==
  LET joined == JoinedBars(old, points, first)
      merged == Merged(old, points, first)
      styled == WithOpacity(WithAttributes(joined, boxes), settings.opacity)
      synced == syncSelectionState(styled, merged, ids, settings)
  IN  WithBarListeners(synced,
                       IF fmt THEN NoListener ELSE Listener(Els(joined)))

\* The click listener of the svg after update: removeEventHandlers takes it
\* off in format mode and addEventHandlers sets it otherwise, and the last
\* statement of update, handleClick(barSelectionMerged), sets it in both.
SvgListener(fmt, merged) ==
  LET handled == IF fmt THEN NoListener ELSE Listener(merged)
  IN  [handled EXCEPT !.on = TRUE, !.sel = merged]

\* The bar elements in the container when update calls syncSelectionState:
\* the merged ones and the old ones, the exit selection is removed later.
BarsAtSync(old, merged) == Els(old) \cup merged

\* What update computes from its options alone: the data points built (or
\* the TypeError of createSelectorDataPoints), total, the data points as
\* the map over them leaves them and, when there are data points, the
\* boxes of the bars, the vertices of the line and the circles.
Scene(points, total, viewport) ==
  LET n        == Len(points)
      height   == viewport.height - marginBottom
      xScale   == BandScale(BandCount(points), viewport.width)
      vertices == LineDataPoints(points, xScale, height)
  IN  [boxes   |-> SubSeq([i \in 1..n |->
                             BarBox(points, i, xScale, height, total)], 1, n),
       line    |-> LineArray(StartPoint(points, xScale, height), vertices),
       circles |-> Circles(vertices, height, viewport.width)]

NoScene == [boxes |-> << >>, line |-> << >>, circles |-> << >>]

Series(options) ==
  LET built  == createSelectorDataPoints(options.dv)
      total  == TotalOf(built.points, Len(built.points))
      points == WithCumulative(built.points, total)
  IN  [threw  |-> built.threw,
       total  |-> total,
       points |-> points,
       scene  |-> IF Len(points) = 0 THEN NoScene
                  ELSE Scene(points, total, options.viewport)]

\* The options of a set with what update computes from them.
Frames(optionSet) ==
  {[options |-> options, series |-> Series(options)] : options \in optionSet}

\* update(options): options.dv is the query result, options.formatMode the
\* format mode, options.opacity the general view's opacity setting,
\* options.viewport the viewport; series is Series(options).
update(options, series) ==
  \E settings \in {[opacity |-> options.opacity]} :
  /\ updates' = updates + 1
  /\ lastOptions' = options
  /\ repeated' = (lastUpdate # "none" /\ options = lastOptions)
  /\ formattingSettings' = settings
  /\ UNCHANGED <<selectionIds, pending, allowInteractions, lastContextMenu,
                 lastLookup>>
  /\ IF series.threw
     THEN \* createSelectorDataPoints throws: nothing else is assigned
          /\ lastUpdate' = "threwInCreate"
          /\ UNCHANGED <<barDataPoints, formatMode, bars, line, circles,
                         barSelection, svgClick, svgContextMenu, axisTicks,
                         nextEl, lastSync>>
     ELSE IF ~options.dv.hasDataViews \/ Len(series.points) = 0
     THEN \* options.dataViews[0] of undefined, or barDataPoints[0].category
          \* of undefined: a TypeError before anything is rendered
          /\ lastUpdate' = "threwInUpdate"
          /\ barDataPoints' = series.points
          /\ formatMode' = options.formatMode
          \* the axes are called (483-505) once options.dataViews[0] has
          \* been read (482); the right axis has the ticks of 0 to 100
          /\ axisTicks' = (axisTicks \/ options.dv.hasDataViews)
          /\ UNCHANGED <<bars, line, circles, barSelection, svgClick,
                         svgContextMenu, nextEl, lastSync>>
     ELSE /\ lastUpdate' = "ok"
          /\ barDataPoints' = series.points
          /\ formatMode' = options.formatMode
          /\ line' = series.scene.line
          /\ circles' = RemovedCircles(circles) \o series.scene.circles
          /\ barSelection' = UpdateSelection(bars, series.points)
          /\ bars' = RenderedBars(bars, series.points, nextEl, settings,
                                  selectionIds, options.formatMode,
                                  series.scene.boxes)
          /\ nextEl' = nextEl + Max(0, Len(series.points) - Len(bars))
          /\ svgClick' = SvgListener(options.formatMode, Els(bars'))
          /\ svgContextMenu' = ~options.formatMode
          /\ axisTicks' = TRUE
          /\ lastSync' = SyncRun("update", Merged(bars, series.points, nextEl),
                                 selectionIds, settings,
                                 BarsAtSync(bars, Els(bars')))

(***************************************************************************)
(* The selection manager (the host's): select, clear and their promises.   *)
(***************************************************************************)
\* The selected identities after select(id, multiSelect).
Select(ids, id, multiSelect) ==
  IF id \in ids
  THEN IF multiSelect THEN ids \ {id}
       ELSE IF Cardinality(ids) > 1 THEN {id} ELSE {}
  ELSE IF multiSelect THEN ids \cup {id} ELSE {id}

\* A call of the selection manager: select(id, multiSelect) or clear().
Call(op, id, multiSelect) == [op |-> op, id |-> id, multiSelect |-> multiSelect]

\* this.selectionManager.select(datum.selectionId, isCtrlPressed)
SelectCall(datum, ctrlKey) == Call("select", datum.selectionId, ctrlKey)

\* this.selectionManager.clear()
ClearCall == Call("clear", {}, FALSE)

\* The selected identities after a call of the selection manager.
Called(ids, call) ==
  IF call.op = "clear" THEN {} ELSE Select(ids, call.id, call.multiSelect)

\* The promise of a call: the identities it resolves to and the selection
\* its then-callback highlights.
Promise(ids, sel) == [ids |-> ids, sel |-> sel]

\* The click listener of the svg (handleClick): clear(), and the highlight
\* of the captured selection once the promise resolves.
SvgClicked ==
  IF svgClick.on /\ allowInteractions
  THEN /\ selectionIds' = Called(selectionIds, ClearCall)
       /\ pending' = Append(pending, Promise(selectionIds', svgClick.sel))
  ELSE UNCHANGED <<selectionIds, pending>>

\* A click on bar i, with or without Ctrl.  The listener of handleBarClick
\* selects the bar's identity and stops the event; without a listener, or
\* with interactions not allowed, the event bubbles to the svg.
BarClick(i, ctrlKey) ==
  /\ IF bars[i].click.on /\ allowInteractions
     THEN /\ selectionIds' =
               Called(selectionIds, SelectCall(bars[i].datum, ctrlKey))
          /\ pending' = Append(pending,
                               Promise(selectionIds', bars[i].click.sel))
     ELSE SvgClicked
  /\ UNCHANGED <<barDataPoints, formattingSettings, formatMode, bars, line, circles,
                 barSelection, svgClick, nextEl, allowInteractions,
                 lastUpdate, lastOptions, lastSync, updates, repeated,
                 svgContextMenu, axisTicks, lastContextMenu, lastLookup>>

\* A click on the chart outside the bars.
BackgroundClick ==
  /\ SvgClicked
  /\ UNCHANGED <<barDataPoints, formattingSettings, formatMode, bars, line, circles,
                 barSelection, svgClick, nextEl, allowInteractions,
                 lastUpdate, lastOptions, lastSync, updates, repeated,
                 svgContextMenu, axisTicks, lastContextMenu, lastLookup>>

\* The target of a right click that is an axis tick whose tick value is
\* truthy (a non-empty label, a number other than 0).
TickTarget == 0 - 1

\* A right click on bar `target`, on a tick of an axis (TickTarget), or on
\* an element without a datum (target 0).  The listener of
\* handleContextMenu shows the host's context menu for
\* dataPoint ? dataPoint.selectionId : {}: the identity of the bar's data
\* point, undefined for a tick value (it has no selectionId), {} when the
\* target has no datum.
ContextMenu(target) ==
  /\ svgContextMenu
  /\ target = TickTarget => axisTicks
  /\ lastContextMenu' =
       [shown       |-> TRUE,
        id          |-> IF target \in 1..Len(bars)
                        THEN bars[target].datum.selectionId ELSE {},
        idUndefined |-> target = TickTarget]
  /\ UNCHANGED <<barDataPoints, formattingSettings, formatMode, bars, line,
                 circles, barSelection, svgClick, nextEl, selectionIds,
                 pending, allowInteractions, lastUpdate, lastOptions,
                 lastSync, updates, repeated, svgContextMenu, axisTicks,
                 lastLookup>>

\* The host asks for the styles of a sub-selection list.
GetStyles(subSelections) ==
  /\ lastLookup' = Lookup("styles", subSelections,
                          getSubSelectionStyles(subSelections), NoShortcuts)
  /\ UNCHANGED <<barDataPoints, formattingSettings, formatMode, bars, line,
                 circles, barSelection, svgClick, nextEl, selectionIds,
                 pending, allowInteractions, lastUpdate, lastOptions,
                 lastSync, updates, repeated, svgContextMenu, axisTicks,
                 lastContextMenu>>

\* The host asks for the shortcuts of a sub-selection list.
GetShortcuts(subSelections) ==
  /\ lastLookup' = Lookup("shortcuts", subSelections, NoStyles,
                          getSubSelectionShortcuts(subSelections))
  /\ UNCHANGED <<barDataPoints, formattingSettings, formatMode, bars, line,
                 circles, barSelection, svgClick, nextEl, selectionIds,
                 pending, allowInteractions, lastUpdate, lastOptions,
                 lastSync, updates, repeated, svgContextMenu, axisTicks,
                 lastContextMenu>>

\* The oldest pending promise resolves: its then-callback runs
\* syncSelectionState on the selection its listener captured.
Confirm ==
  /\ pending # << >>
  /\ bars' = syncSelectionState(bars, Selection(Head(pending).sel),
                                Head(pending).ids, formattingSettings)
  /\ pending' = Tail(pending)
  /\ lastSync' = SyncRun("confirm", Selection(Head(pending).sel),
                         Head(pending).ids, formattingSettings, Els(bars))
  /\ UNCHANGED <<barDataPoints, formattingSettings, formatMode, line, circles,
                 barSelection, svgClick, nextEl, selectionIds,
                 allowInteractions, lastUpdate, lastOptions, updates,
                 repeated, svgContextMenu, axisTicks, lastContextMenu, lastLookup>>

\* The selection changes outside the visual and the selection manager runs
\* the callback registered by the constructor.
SelectionCallback(ids) ==
  /\ selectionIds' = ids
  /\ bars' = syncSelectionState(bars, barSelection, ids, formattingSettings)
  /\ lastSync' = SyncRun("callback", barSelection, ids, formattingSettings,
                         Els(bars))
  /\ UNCHANGED <<barDataPoints, formattingSettings, formatMode, line, circles,
                 barSelection, svgClick, nextEl, pending, allowInteractions,
                 lastUpdate, lastOptions, updates, repeated,
                 svgContextMenu, axisTicks, lastContextMenu, lastLookup>>

(***************************************************************************)
(* The inputs and the specifications.                                      *)
(***************************************************************************)
Prefix(seq, n) == SubSeq(seq, 1, n)

\* The sequences over S of length at most n.
SeqsUpTo(S, n) == UNION {[1..k -> S] : k \in 0..n}

\* The cells of a value column: small numbers and null.
CellValues == {JNum(n) : n \in 0..MaxVal} \cup {Null}

\* The general view's opacity settings tried.
Opacities == {50, 100}

\* The viewports tried (options.viewport), in pixels.
Viewports == {[width |-> 500, height |-> 300]}

\* The worked examples of the specification: A, B, C with the values
\* 10, 30, 60, and with 60, 30, 10.
ExampleViews ==
  {DataView(<<"A", "B", "C">>, <<JNum(10), JNum(30), JNum(60)>>),
   DataView(<<"A", "B", "C">>, <<JNum(60), JNum(30), JNum(10)>>)}

\* The metadata cells of a value column tried.
FormatCells == {Hole, Format("0.0")}

\* Query results with metadata on the value column: k categories, m values
\* of 1 and metadata for the first rows of the value column.
FormattedViews ==
  UNION {{Formatted(DataView(Prefix(Labels, k), [i \in 1..m |-> JNum(1)]),
                    cells) :
            k \in 1..MaxLen, cells \in SeqsUpTo(FormatCells, m)} :
         m \in 1..MaxLen}

\* Query results in which a category label repeats.
RepeatedViews ==
  {DataView(cats, [i \in 1..Len(cats) |-> JNum(i)]) :
     cats \in {<<"A", "A">>, <<"A", "B", "A">>}}

\* The category counts tried with a value column: none, as many as there
\* are values, and one more.
CategoryCounts(vals) ==
  {k \in 0..MaxLen : k = 0 \/ k - Len(vals) \in 0..1}

\* The query results of the data specification: the malformed ones, the
\* examples, and every value column within the bounds with the category
\* counts above.
DataViews ==
  Malformed \cup ExampleViews \cup FormattedViews \cup RepeatedViews \cup
  UNION {{DataView(Prefix(Labels, k), vals) : k \in CategoryCounts(vals)} :
         vals \in SeqsUpTo(CellValues, MaxLen)}

DataOptions ==
  {[dv |-> dv, formatMode |-> FALSE, opacity |-> 100, viewport |-> v] :
     dv \in DataViews, v \in Viewports}

\* The query results of the interaction specification: n categories, each
\* with the value 1, an absent result and one with an empty category list.
InteractionViews ==
  {DataView(Prefix(Labels, n), [k \in 1..n |-> JNum(1)]) : n \in 0..MaxBars}
  \cup {dv \in Malformed : ~dv.hasDataViews \/ dv.categories = "empty"}

InteractionOptions ==
  {[dv |-> dv, formatMode |-> fmt, opacity |-> g, viewport |-> v] :
     dv \in InteractionViews, fmt \in BOOLEAN, g \in Opacities,
     v \in Viewports}

\* The selections the host may report: none, one row, a coarser identity
\* standing for rows 0 and 1.
ExternalSelections == {{}, {{1}}, {{0, 1}}}

InteractionFrames == Frames(InteractionOptions)

\* The bars clicked: the first two.
ClickTargets == 1..Min(Len(bars), 2)

\* The right-click targets tried: a tick of an axis, an element without a
\* datum (0) and the first bar.
ContextMenuTargets == {TickTarget} \cup 0..Min(Len(bars), 1)

\* The data specification: the first update of a new visual, on any query
\* result.
DataFrames == Frames(DataOptions)

FirstUpdate ==
  \E frame \in DataFrames :
    lastUpdate = "none" /\ update(frame.options, frame.series)

InitData == Init /\ allowInteractions = TRUE

SpecData == InitData /\ [][FirstUpdate]_vars

\* The interaction specification: updates, clicks, confirmations and
\* selection callbacks in any order.
Next ==
  \/ \E frame \in InteractionFrames :
       updates < MaxUpdates /\ update(frame.options, frame.series)
  \/ \E i \in ClickTargets, ctrlKey \in BOOLEAN :
       Len(pending) < MaxPending /\ BarClick(i, ctrlKey)
  \/ Len(pending) < MaxPending /\ BackgroundClick
  \/ Confirm
  \/ \E ids \in ExternalSelections : SelectionCallback(ids)
  \/ \E target \in ContextMenuTargets : ContextMenu(target)

Spec == Init /\ [][Next]_vars

\* The render specification: updates, and selection callbacks between them.
NextRender ==
  \/ \E frame \in InteractionFrames :
       updates < MaxUpdates /\ update(frame.options, frame.series)
  \/ \E ids \in ExternalSelections : SelectionCallback(ids)

SpecRender == Init /\ [][NextRender]_vars

\* The selection specification: one update, then clicks, confirmations and
\* selection callbacks in any order (callbacks may also come before the
\* update).
FirstRender ==
  \E frame \in InteractionFrames :
    lastUpdate = "none" /\ update(frame.options, frame.series)

NextSelection ==
  \/ FirstRender
  \/ \E i \in ClickTargets, ctrlKey \in BOOLEAN :
       Len(pending) < MaxPending /\ BarClick(i, ctrlKey)
  \/ Len(pending) < MaxPending /\ BackgroundClick
  \/ Confirm
  \/ \E ids \in ExternalSelections : SelectionCallback(ids)
  \/ \E target \in ContextMenuTargets : ContextMenu(target)

SpecSelection == Init /\ [][NextSelection]_vars

\* The object names tried: those of the visual (BarChartObjectNames) and
\* one that is none of them.
ObjectNames ==
  {"arcElement", "colorSelector", "enableAxis", "directEdit", "legend"}

VisualObjects ==
  {VisualObject(name, selector) :
     name \in ObjectNames, selector \in {"undefined", "row 0"}}

\* The visual objects tried after the first one of a list.
NextObjects ==
  {VisualObject(name, "undefined") : name \in {"colorSelector", "legend"}}

\* The sub-selection lists tried: the empty one, one sub-selection with no,
\* one or two visual objects, and two sub-selections.
SubSelectionLists ==
  {<< >>, <<SubSelection(<< >>)>>}
  \cup {<<SubSelection(<<o>>)>> : o \in VisualObjects}
  \cup {<<SubSelection(<<o, p>>)>> : o \in VisualObjects, p \in NextObjects}
  \cup {<<SubSelection(<<o>>), SubSelection(<<p>>)>> :
          o \in VisualObjects, p \in NextObjects}
  \cup {<<SubSelection(<< >>), SubSelection(<<p>>)>> : p \in NextObjects}

\* The formatting specification: one update, and lookups of styles and
\* shortcuts before and after it.
NextLookup ==
  \/ FirstRender
  \/ \E subSelections \in SubSelectionLists : GetStyles(subSelections)
  \/ \E subSelections \in SubSelectionLists : GetShortcuts(subSelections)

SpecLookup == Init /\ [][NextLookup]_vars

(***************************************************************************)
(* Vocabulary of the properties.                                           *)
(***************************************************************************)
\* An update has run, and these are its query result and its data points.
Updated == lastUpdate # "none"

Threw == lastUpdate \in {"threwInCreate", "threwInUpdate"}

\* The integer a value cell stands for: an empty or absent cell is 0.
CellInt(value) == IF value.t = "number" THEN value.v ELSE 0

\* The sum of the values of the first k data points, as an integer.
RECURSIVE SumOfValues(_, _)
SumOfValues(points, k) ==
  IF k = 0 THEN 0 ELSE SumOfValues(points, k - 1) + CellInt(points[k].value)

SumOfAll(points) == SumOfValues(points, Len(points))

HasAbsentValue(points) ==
  \E i \in 1..Len(points) : points[i].value = Undefined

\* Exact sums and products of doubles, and |x - y| <= tol, without rounding.
ExactAdd(x, y) ==
  LET lo == Min(x.e, y.e)
  IN  Exact(LAdd(LShiftL(x.m, x.e - lo), LShiftL(y.m, y.e - lo)), lo)

ExactMul(x, y) == Exact(LMul(x.m, y.m), x.e + y.e)

Near(x, y, tol) ==
  /\ ~x.nan /\ ~y.nan
  /\ DLeq(x, ExactAdd(y, tol))
  /\ DLeq(y, ExactAdd(x, tol))

\* The floating tolerance of the properties: 2^-30, about 1e-9.
Tolerance == Exact(<<1>>, -30)

\* The cumulative percentages of the data points, in order.
Cumulatives == [i \in 1..Len(barDataPoints) |-> barDataPoints[i].cumulative]

LastCumulative == barDataPoints[Len(barDataPoints)].cumulative

NonDecreasing ==
  \A i \in 1..(Len(barDataPoints) - 1) :
    DLeq(barDataPoints[i].cumulative, barDataPoints[i + 1].cumulative)

\* The last update rendered a series whose values are all present and whose
\* total is positive.
PositiveSeries ==
  /\ lastUpdate = "ok"
  /\ ~HasAbsentValue(barDataPoints)
  /\ SumOfAll(barDataPoints) > 0

\* The query results the specification calls absent or malformed: a part
\* is absent, or the categories or the values are an empty list.
IsMalformed(dv) ==
  \/ ~dv.hasDataViews \/ ~dv.hasView \/ ~dv.hasCategorical
  \/ dv.categories # "present" \/ ~dv.hasSource \/ dv.values # "present"

(***************************************************************************)
(* C1.  An update whose query result is absent or malformed runs to        *)
(* completion without raising an error and leaves the chart with no bar    *)
(* element and no marker element.  The code raises a TypeError instead,    *)
(* and leaves the bars and markers of the update before it in place.       *)
(***************************************************************************)
C1_MalformedUpdateRendersNothing ==
  (Updated /\ IsMalformed(lastOptions.dv))
    => /\ ~Threw
       /\ Len(bars) = 0
       /\ Len(circles) = 0

(***************************************************************************)
(* C2.  createSelectorDataPoints returns the empty sequence, without       *)
(* raising an error, whenever the query result has no categories (absent   *)
(* or an empty list), no values (absent or an empty list) or no source on  *)
(* the first category.  The code raises a TypeError on the empty lists.    *)
(***************************************************************************)
C2_NoDataPointsWithoutError ==
  (Updated /\ IsMalformed(lastOptions.dv))
    => /\ lastUpdate # "threwInCreate"
       /\ barDataPoints = << >>

(***************************************************************************)
(* C3.  When the total of the values is 0, the cumulative percentage of    *)
(* every data point is 0 and no error or NaN comes out.  The code divides  *)
(* 0 by 0 and every cumulative percentage is NaN.                          *)
(***************************************************************************)
C3_ZeroTotalGivesZeroPercent ==
  (/\ lastUpdate = "ok"
   /\ ~HasAbsentValue(barDataPoints)
   /\ SumOfAll(barDataPoints) = 0)
    => \A i \in 1..Len(barDataPoints) : barDataPoints[i].cumulative = Num(0)

(***************************************************************************)
(* C4.  When the category and value columns differ in length, a data point *)
(* whose value is absent adds 0 to the total and to the running sum: the   *)
(* total is the sum of the present values, so every cumulative percentage  *)
(* is a number and the last one is 100.  In the code the absent value is   *)
(* undefined, the total is NaN and so is every cumulative percentage.      *)
(***************************************************************************)
C4_AbsentValueCountsAsZero ==
  (/\ lastUpdate = "ok"
   /\ HasAbsentValue(barDataPoints)
   /\ SumOfAll(barDataPoints) > 0)
    => /\ \A i \in 1..Len(barDataPoints) : ~barDataPoints[i].cumulative.nan
       /\ Near(LastCumulative, Num(100), Tolerance)

(***************************************************************************)
(* C5.  For every non-empty series with non-negative values and a positive *)
(* total, the cumulative percentages never decrease, lie between 0 and 100 *)
(* and the last one equals 100.  As stated, with exact bounds: violated,   *)
(* the sum of the rounded percentages of 1 and 2 is 99.99999999999999.     *)
(***************************************************************************)
C5_LastPercentIsExactly100 ==
  PositiveSeries
    => /\ NonDecreasing
       /\ \A i \in 1..Len(barDataPoints) :
            /\ DLeq(Num(0), barDataPoints[i].cumulative)
            /\ DLeq(barDataPoints[i].cumulative, Num(100))
       /\ LastCumulative = Num(100)

\* C5, amended: the cumulative percentages never decrease, and they lie
\* between 0 and 100 and end at 100 within the floating tolerance.
C5_LastPercentIs100WithinTolerance ==
  PositiveSeries
    => /\ NonDecreasing
       /\ \A i \in 1..Len(barDataPoints) :
            /\ DLeq(Num(0), barDataPoints[i].cumulative)
            /\ DLeq(barDataPoints[i].cumulative, ExactAdd(Num(100), Tolerance))
       /\ Near(LastCumulative, Num(100), Tolerance)

\* Three values with a positive total whose percentages do not add up to
\* exactly 100.
C5_Witness ==
  /\ PositiveSeries
  /\ Len(barDataPoints) = 3
  /\ LastCumulative # Num(100)
  /\ Near(LastCumulative, Num(100), Tolerance)

(***************************************************************************)
(* C6.  The cumulative percentage of data point i is the sum of the values *)
(* of the points up to i, in input order, divided by the total and         *)
(* multiplied by 100; the points are never sorted by value; 10, 30, 60     *)
(* gives 10, 40, 100 and 60, 30, 10 gives 60, 90, 100.  As stated, with    *)
(* the formula evaluated in doubles: violated, the code adds up rounded    *)
(* percentages instead of dividing the running sum.                        *)
(***************************************************************************)
C6_PercentIsRunningSumOverTotal ==
  PositiveSeries
    => \A i \in 1..Len(barDataPoints) :
         barDataPoints[i].cumulative =
           DMul(DDiv(Num(SumOfValues(barDataPoints, i)),
                     Num(SumOfAll(barDataPoints))),
                Num(100))

\* C6, amended: for a positive total, the data points keep the input order
\* and the cumulative percentage of point i is within the floating
\* tolerance of (sum of the values up to i) / total * 100; the two examples
\* come out exactly.
C6_PercentIsRunningSumWithinTolerance ==
  /\ PositiveSeries
       => \A i \in 1..Len(barDataPoints) :
            /\ barDataPoints[i].index = i - 1
            /\ i <= Len(lastOptions.dv.vals)
            /\ barDataPoints[i].value = lastOptions.dv.vals[i]
            /\ Near(ExactMul(barDataPoints[i].cumulative,
                             Num(SumOfAll(barDataPoints))),
                    Num(100 * SumOfValues(barDataPoints, i)),
                    ExactMul(Tolerance, Num(SumOfAll(barDataPoints))))
  /\ (lastUpdate = "ok" /\ lastOptions.dv.vals = <<JNum(10), JNum(30), JNum(60)>>)
       => Cumulatives = <<Num(10), Num(40), Num(100)>>
  /\ (lastUpdate = "ok" /\ lastOptions.dv.vals = <<JNum(60), JNum(30), JNum(10)>>)
       => Cumulatives = <<Num(60), Num(90), Num(100)>>

\* The second example, rendered: the larger value first, not moved.
C6_Witness ==
  /\ lastUpdate = "ok"
  /\ lastOptions.dv.vals = <<JNum(60), JNum(30), JNum(10)>>
  /\ Cumulatives = <<Num(60), Num(90), Num(100)>>

\* The bars of the selection the last syncSelectionState ran on.
SyncedBars == {i \in 1..Len(bars) : bars[i].el \in lastSync.sel}

Opacity(i) == bars[i].opacity

(***************************************************************************)
(* C7.  With a non-empty selected set, syncSelectionState gives a bar the  *)
(* solid opacity (1) if and only if some selected identity includes the    *)
(* bar's identity (includes, not equality), and the dimmed opacity (0.4)   *)
(* otherwise; with only B selected among A, B, C: B solid, A and C dimmed. *)
(***************************************************************************)
C7_SelectedSolidOthersDimmed ==
  (lastSync.by # "none" /\ lastSync.ids # {})
    => \A i \in SyncedBars :
         Opacity(i) =
           IF \E id \in lastSync.ids : bars[i].datum.selectionId \subseteq id
           THEN solidOpacity
           ELSE transparentOpacity

\* A, B, C rendered and synchronised with only B selected.
C7_Witness ==
  /\ Len(bars) = 3
  /\ lastSync.sel = Els(bars)
  /\ lastSync.ids = {{1}}
  /\ Opacity(1) = transparentOpacity
  /\ Opacity(2) = solidOpacity
  /\ Opacity(3) = transparentOpacity

(***************************************************************************)
(* C8.  With an empty selected set, syncSelectionState gives every bar the *)
(* solid opacity (Config.solidOpacity), the value a selected bar has when  *)
(* the selection is not empty.  As stated: violated, the bars get the      *)
(* general view's opacity setting.                                         *)
(***************************************************************************)
C8_EmptySelectionGivesSolidOpacity ==
  (lastSync.by # "none" /\ lastSync.ids = {})
    => \A i \in SyncedBars : Opacity(i) = solidOpacity

\* C8, amended: with an empty selected set, syncSelectionState gives every
\* bar the opacity of the general view's setting (setting / 100), which is
\* the solid opacity when the setting is 100; no bar is left dimmed at 0.4
\* unless that is the setting.
C8_EmptySelectionGivesGeneralOpacity ==
  (lastSync.by # "none" /\ lastSync.ids = {})
    => \A i \in SyncedBars :
         /\ Opacity(i) = lastSync.opacity
         /\ lastSync.opacity = 100 => Opacity(i) = solidOpacity

\* A click cleared the selection while the general opacity is 50 %: every
\* bar is at 0.5.
C8_Witness ==
  /\ lastSync.by = "confirm"
  /\ lastSync.ids = {}
  /\ lastSync.opacity = 50
  /\ Len(bars) >= 2
  /\ lastSync.sel = Els(bars)
  /\ \A i \in 1..Len(bars) : Opacity(i) = 50

(***************************************************************************)
(* C9.  For every interleaving of updates, bar clicks, background clicks,  *)
(* selection callbacks and click confirmations, once no confirmation is    *)
(* pending every rendered bar has the opacity one syncSelectionState over  *)
(* the current bars and the selection manager's current selection gives.   *)
(***************************************************************************)
C9_ConvergesToOneSync ==
  (pending = << >> /\ lastUpdate = "ok")
    => \A i \in 1..Len(bars) :
         Opacity(i) = SyncOpacity(selectionIds, formattingSettings, bars[i].datum)

(***************************************************************************)
(* C10.  A selection callback that arrives after an update has completed   *)
(* applies the highlight to every bar rendered, the bars the update        *)
(* created included, not to an element set captured before.                *)
(***************************************************************************)
C10_CallbackHighlightsCurrentBars ==
  (lastSync.by = "callback" /\ lastUpdate = "ok")
    => \A i \in 1..Len(bars) :
         Opacity(i) = SyncOpacity(lastSync.ids, [opacity |-> lastSync.opacity],
                                  bars[i].datum)

(***************************************************************************)
(* C11.  Within one update, the syncSelectionState of that update begins   *)
(* only after the whole reconciliation of the bars has finished: new bars  *)
(* created, existing bars updated, bars no longer present removed.  As     *)
(* stated: violated, the exit selection is removed after the sync.         *)
(***************************************************************************)
C11_SyncAfterWholeReconciliation ==
  lastSync.by = "update"
    => /\ lastSync.sel = Els(bars)
       /\ lastSync.dom = Els(bars)

\* C11, amended: the syncSelectionState of an update begins after the bars
\* of the new indices are created and the bars of the existing indices are
\* updated, and runs on exactly these bars; the bars of the indices no
\* longer present are still in the container then, outside the selection
\* of the sync, and are removed before update returns.
C11_SyncAfterCreateAndUpdate ==
  lastSync.by = "update"
    => /\ lastSync.sel = Els(bars)
       /\ Els(bars) \subseteq lastSync.dom
       /\ lastUpdate = "ok" =>
            /\ Len(bars) = Len(barDataPoints)
            /\ \A i \in 1..Len(bars) : bars[i].datum = barDataPoints[i]

\* An update that removed a bar: the bar was still there when the sync ran.
C11_Witness ==
  /\ lastSync.by = "update"
  /\ lastUpdate = "ok"
  /\ lastSync.sel = Els(bars)
  /\ lastSync.dom # Els(bars)
  /\ Len(bars) >= 1

\* What is seen of the bars: position, size, fill, stroke and opacity of
\* each, in document order.
Visual(bs) ==
  [i \in 1..Len(bs) |->
     [x |-> bs[i].x, y |-> bs[i].y, width |-> bs[i].width,
      height |-> bs[i].height, fill |-> bs[i].fill, stroke |-> bs[i].stroke,
      opacity |-> bs[i].opacity]]

\* The state is the one the last update left: the selection is the one that
\* update highlighted, and nothing has run syncSelectionState since.
AsLastUpdateLeftIt ==
  /\ lastUpdate # "none"
  /\ lastUpdate = "ok" => lastSync.by = "update" /\ lastSync.ids = selectionIds

\* An update step with the options of the last update.
SameUpdateAgain ==
  /\ updates' = updates + 1
  /\ lastOptions' = lastOptions
  /\ AsLastUpdateLeftIt

\* C12: an update with the inputs of the update before it (same data,
\* viewport, settings and selection) leaves the visual state as it was: as
\* many bars and as many markers, each bar the same element with the same
\* position, size, fill, stroke and opacity, the same markers and line.
C12_SecondUpdateChangesNothing ==
  [][SameUpdateAgain =>
       /\ Els(bars') = Els(bars)
       /\ Len(bars') = Len(bars)
       /\ Visual(bars') = Visual(bars)
       /\ circles' = circles
       /\ line' = line]_vars

\* Two updates in a row with the same options have rendered two bars, the
\* second of them selected and solid, the first dimmed, and two markers.
C12_Witness ==
  /\ repeated /\ lastUpdate = "ok" /\ lastSync.by = "update"
  /\ Len(bars) = 2 /\ Len(circles) = 2 /\ Len(line) = 3
  /\ bars[1].opacity = transparentOpacity
  /\ bars[2].opacity = solidOpacity

\* C13: after any sequence of updates there is exactly one bar element for
\* each current data point, in index order and bound to the data point of
\* its index.
C13_OneBarPerDataPoint ==
  updates >= 1 =>
    /\ Len(bars) = Len(barDataPoints)
    /\ \A i \in 1..Len(bars) : bars[i].datum = barDataPoints[i]
    /\ Cardinality(Els(bars)) = Len(bars)

\* A step of an update that returns normally keeps the element of every
\* index that stays, creates elements for the new indices only and removes
\* the elements of the indices that are gone.
ReconciledByIndex ==
  [][updates' = updates + 1 /\ lastUpdate' = "ok" =>
       /\ Len(bars') = Len(barDataPoints')
       /\ \A i \in 1..Min(Len(bars), Len(bars')) : bars'[i].el = bars[i].el
       /\ \A i \in (Len(bars) + 1)..Len(bars') : bars'[i].el \notin Els(bars)
       /\ Cardinality(Els(bars) \ Els(bars')) = Max(0, Len(bars) - Len(bars'))]_vars

\* C14: for a well-formed query result createSelectorDataPoints raises no
\* error and returns max(number of categories, number of values) data
\* points; the data point at position i has index i, and the value of a row
\* beyond the value column is absent.
C14_OnePointPerRowWithoutError ==
  lastUpdate # "none" /\ ~IsMalformed(lastOptions.dv) =>
    /\ lastUpdate # "threwInCreate"
    /\ Len(barDataPoints) = Max(Len(lastOptions.dv.cats), Len(lastOptions.dv.vals))
    /\ \A i \in 1..Len(barDataPoints) :
         /\ barDataPoints[i].index = i - 1
         /\ i > Len(lastOptions.dv.vals) => barDataPoints[i].value = Undefined

\* The same for the query results without metadata on the value column.
OnePointPerRowWithoutObjects ==
  lastUpdate # "none" /\ ~IsMalformed(lastOptions.dv)
    /\ ~lastOptions.dv.objects.present =>
    /\ lastUpdate # "threwInCreate"
    /\ Len(barDataPoints) = Max(Len(lastOptions.dv.cats), Len(lastOptions.dv.vals))
    /\ \A i \in 1..Len(barDataPoints) :
         /\ barDataPoints[i].index = i - 1
         /\ i > Len(lastOptions.dv.vals) => barDataPoints[i].value = Undefined

\* Bar i lies strictly left of bar j, and the line vertex of data point i
\* is at the right edge of bar i.
InIndexOrder ==
  /\ \A i, j \in 1..Len(bars) :
       i < j => bars[i].x + bars[i].width <= bars[j].x
  /\ \A i \in 1..Len(bars) : line[i + 1].x = bars[i].x + bars[i].width

\* C15: the horizontal layout follows index order, also when category
\* labels repeat: bar i is strictly left of bar j for i < j, and the line
\* vertex of a data point is at the right edge of its own band.
C15_LayoutFollowsIndexOrder == lastUpdate = "ok" => InIndexOrder

\* The layout follows index order when no label repeats.
LayoutFollowsIndexOrderOfDistinctLabels ==
  lastUpdate = "ok" /\ BandCount(barDataPoints) = Len(barDataPoints)
    => InIndexOrder

\* The pixel y of a percentage on the right axis, in the viewport of the
\* last update.
PercentY(percent) ==
  LinearScale(Num(100), lastOptions.viewport.height - marginBottom, marginTop,
              percent)

\* C16: after an update with n >= 1 data points the line has n + 1 vertices:
\* the start vertex at the left edge of the first category's band and the
\* pixel y of 0 % (the bottom of the plot), then for each data point in
\* index order a vertex at the right edge of its category's band and the
\* pixel y of its cumulative percentage; the markers are the n vertices
\* after the start vertex, in that order.
C16_LineHasStartVertexAndOnePerPoint ==
  lastUpdate = "ok" =>
    LET n == Len(barDataPoints)
    IN  /\ n >= 1
        /\ Len(line) = n + 1
        /\ line[1].x = bars[1].x
        /\ line[1].y = Num(lastOptions.viewport.height - marginBottom)
        /\ line[1].y = PercentY(Num(0))
        /\ \A i \in 1..n :
             /\ line[i + 1].x = bars[i].x + bars[i].width
             /\ line[i + 1].y = PercentY(barDataPoints[i].cumulative)
        /\ Len(circles) = n
        /\ \A i \in 1..n : /\ circles[i].cx = line[i + 1].x
                             /\ circles[i].cy = line[i + 1].y

\* The example A, B, C with 10, 30, 60: four vertices from the bottom left
\* of the first band to the top (100 %) at the right edge of the last band,
\* and three markers.
C16_Witness ==
  /\ lastUpdate = "ok"
  /\ lastOptions.dv.vals = <<JNum(10), JNum(30), JNum(60)>>
  /\ Len(line) = 4 /\ Len(circles) = 3
  /\ line[1] = [x |-> bars[1].x, y |-> Num(295)]
  /\ line[4] = [x |-> bars[3].x + bars[3].width, y |-> Num(marginTop)]
  /\ line[1].x < line[2].x /\ line[2].x < line[3].x /\ line[3].x < line[4].x

\* The bars without their opacity and listeners: which elements there are,
\* the data point bound to each, its position, size, fill and stroke.
WithoutOpacity(bs) ==
  [i \in 1..Len(bs) |->
     [el |-> bs[i].el, datum |-> bs[i].datum, x |-> bs[i].x, y |-> bs[i].y,
      width |-> bs[i].width, height |-> bs[i].height, fill |-> bs[i].fill,
      stroke |-> bs[i].stroke]]

\* A step of a click listener or of the context menu listener.
ClickOrContextMenuStep ==
  \/ Len(pending') > Len(pending)
  \/ selectionIds' # selectionIds /\ lastSync' = lastSync
  \/ lastContextMenu' # lastContextMenu

\* C17: between updates only syncSelectionState changes the bars, and it
\* changes only their opacity: a step that is not an update adds or removes
\* no bar and changes no bar's data point, position, size, fill or stroke;
\* a click or a context menu changes no bar at all; and the bars change
\* only in a step that runs syncSelectionState (a resolved promise of
\* select or clear, or the selection callback), to what it computes.
C17_OnlySyncChangesBarsAndOnlyOpacity ==
  [][updates' = updates =>
       /\ WithoutOpacity(bars') = WithoutOpacity(bars)
       /\ ClickOrContextMenuStep => bars' = bars
       /\ bars' # bars =>
            /\ lastSync'.by \in {"confirm", "callback"}
            /\ bars' = syncSelectionState(bars, Selection(lastSync'.sel),
                                          lastSync'.ids, formattingSettings)]_vars

\* A click on the first of two bars was confirmed and a context menu was
\* shown: the first bar is solid and the second dimmed, and both are where
\* the update put them, with their own colours.
C17_Witness ==
  /\ lastSync.by = "confirm" /\ lastContextMenu.shown
  /\ Len(bars) = 2
  /\ bars[1].opacity = solidOpacity /\ bars[2].opacity = transparentOpacity
  /\ bars[1].x + bars[1].width <= bars[2].x
  /\ bars[1].fill = GetColor("A") /\ bars[2].fill = GetColor("B")
  /\ \A i \in 1..2 : bars[i].datum = barDataPoints[i]

\* The part token of a sub-selection list: the object name of the first
\* visual object of its first sub-selection, "none" without one.
PartToken(subSelections) ==
  IF subSelections = << >> THEN "none"
  ELSE IF subSelections[1].customVisualObjects = << >> THEN "none"
  ELSE subSelections[1].customVisualObjects[1].objectName

KnownTokens == {"colorSelector", "enableAxis", "directEdit"}

\* The references of a list of shortcuts.
ShortcutReferences(list) ==
  UNION {list[i].related \cup list[i].excluded : i \in 1..Len(list)}

\* C18: a lookup of styles or shortcuts changes no state of the visual and
\* raises no error; for the tokens colorSelector, enableAxis and directEdit
\* it gives the capabilities of that part (styles whose references are
\* properties of that part; shortcuts that reset properties of that part
\* and navigate to its card), and for any other token, an empty list or a
\* sub-selection without a visual object it gives no styles and no
\* shortcuts.
C18_LookupsAreTotal ==
  [][lastLookup' # lastLookup =>
       /\ UNCHANGED <<barDataPoints, formattingSettings, formatMode, bars,
                      line, circles, barSelection, svgClick, nextEl,
                      selectionIds, pending, allowInteractions, lastUpdate,
                      lastOptions, lastSync, updates, repeated,
                      svgContextMenu, axisTicks, lastContextMenu>>
       /\ LET token     == PartToken(lastLookup'.subSelections)
              styles    == lastLookup'.styles
              shortcuts == lastLookup'.shortcuts
          IN  IF token \notin KnownTokens
              THEN styles = NoStyles /\ shortcuts = NoShortcuts
              ELSE IF lastLookup'.kind = "styles"
              THEN /\ styles.defined
                   /\ styles.references # {}
                   /\ \A r \in styles.references : r.objectName = token
              ELSE /\ shortcuts.defined
                   /\ shortcuts.shortcuts[1].type = "Reset"
                   /\ ShortcutReferences(shortcuts.shortcuts) # {}
                   /\ \A r \in ShortcutReferences(shortcuts.shortcuts) :
                        r.objectName = token
                   /\ \E i \in 1..Len(shortcuts.shortcuts) :
                        /\ shortcuts.shortcuts[i].type = "Navigate"
                        /\ shortcuts.shortcuts[i].card = CardUid(token)]_vars

\* With three bars rendered, the styles of a sub-selection whose object is
\* none of the three parts were looked up: no styles.
C18_Witness ==
  /\ lastUpdate = "ok" /\ Len(bars) = 3
  /\ lastLookup.kind = "styles"
  /\ PartToken(lastLookup.subSelections) = "arcElement"
  /\ lastLookup.styles = NoStyles

\* The last update returned normally and was in format mode.
InFormatMode == lastUpdate = "ok" /\ formatMode

\* C19: after an update in format mode no click listener that selects or
\* clears is left, so a click in format mode makes no call of select or
\* clear: no step other than an update adds a promise or changes the
\* selection manager's selection without running the selection callback.
C19_NoClickHandlingInFormatMode ==
  [][InFormatMode /\ updates' = updates =>
       /\ Len(pending') <= Len(pending)
       /\ lastSync' = lastSync => selectionIds' = selectionIds]_vars

\* The bars have no click listener after an update in format mode.
NoBarListenerInFormatMode ==
  InFormatMode => \A i \in 1..Len(bars) : ~bars[i].click.on

\* A click on bar i has called select once, with the identity of the bar's
\* data point, extending the selection exactly with Ctrl.
SelectsThatBar(i, ctrlKey) ==
  /\ Len(pending') = Len(pending) + 1
  /\ selectionIds' =
       Select(selectionIds, CreateSelectionId(bars[i].datum.index), ctrlKey)
  /\ pending'[Len(pending')].ids = selectionIds'
  /\ bars' = bars

\* What a click does that calls clear.
ClearsSelection ==
  /\ Len(pending') = Len(pending) + 1
  /\ selectionIds' = {}
  /\ pending'[Len(pending')].ids = {}
  /\ bars' = bars

\* What a click does that calls nothing.
CallsNothing == UNCHANGED <<selectionIds, pending, bars>>

\* C20: with allowInteractions false a click on a bar or on the background
\* calls neither select nor clear and changes no opacity; with
\* allowInteractions true a click on a bar calls select with exactly that
\* bar's identity, multi-select exactly with Ctrl, and a click on the
\* background calls clear.  After an update in format mode the bars have no
\* click listener, and a click on a bar passes to the svg listener that
\* line 601 sets again (C19): it calls clear instead of select.
C20_ClicksFollowAllowInteractions ==
  [][/\ \A i \in 1..Len(bars), ctrlKey \in BOOLEAN :
          BarClick(i, ctrlKey) =>
            IF allowInteractions THEN SelectsThatBar(i, ctrlKey)
            ELSE CallsNothing
     /\ BackgroundClick =>
          IF allowInteractions THEN ClearsSelection ELSE CallsNothing]_vars

\* The same for the clicks after an update outside format mode.
ClicksFollowAllowInteractionsOutsideFormatMode ==
  [][(lastUpdate = "ok" /\ ~formatMode) =>
       /\ \A i \in 1..Len(bars), ctrlKey \in BOOLEAN :
            BarClick(i, ctrlKey) =>
              IF allowInteractions THEN SelectsThatBar(i, ctrlKey)
              ELSE CallsNothing
       /\ BackgroundClick =>
            IF allowInteractions THEN ClearsSelection ELSE CallsNothing]_vars

====
